---- MODULE Spec2Model ----
(***************************************************************************)
(* Model of the model/preset state manager of src/main.js: the globals     *)
(* currentModel, gui and scene, the asynchronous loads of loadModel, the   *)
(* handlers of the lil-gui panel built by createGUI, and the render tick.  *)
(*                                                                         *)
(* Every number of a transform is kept in hundredths (1.02 is 102), so     *)
(* that the catalog's decimals are exact integers.                         *)
(***************************************************************************)
EXTENDS Integers, Sequences, FiniteSets, TLC

VARIABLES
  scene,         \* ids of the loaded model assets that are children of the scene
  currentModel,  \* the global currentModel: an asset id, or NULL
  objects,       \* heap of loaded assets: id -> [request, position, rotation,
                 \* scale]; the asset of load s has id s
  guis,          \* heap of GUI panels ever built, in construction order
  gui,           \* the global gui: an index into guis, or NULL
  loads,         \* the loader.load calls in flight: id -> [path, overlapped,
                 \* shown]; overlapped (the loads in flight at the request)
                 \* and shown (the asset in the scene at the request, or
                 \* NULL) are history
  issued,        \* number of loader.load calls made so far
  errors,        \* number of console.error reports
  edits,         \* number of numeric field edits made so far
  rendered,      \* the asset ids drawn by the last renderer.render
  last           \* the last handler that ran (history)

vars == <<scene, currentModel, objects, guis, gui, loads, issued, errors, edits, rendered, last>>

NULL == 0

\* ------------------------------------------------------------------ bounds
MaxLoads == 3   \* loader.load calls in one run, the initial one included
MaxEdits == 1   \* numeric field edits in one run

\* ---------------------------------------------------------------- catalogs
ModelKeys == <<"Regular Hand", "Skeleton Hand">>

\* The asset catalog with both names given the same path.
modelFiles_SamePath ==
  ("Regular Hand" :> "/hand_model.glb") @@ ("Skeleton Hand" :> "/hand_model.glb")

modelFiles ==
  ("Regular Hand" :> "/hand_model.glb") @@ ("Skeleton Hand" :> "/skeleton_hand.glb")

Vec(a, b, c) == [x |-> a, y |-> b, z |-> c]

\* The preset catalog with the 'Default' entry of 'Skeleton Hand' named
\* 'Front View'.
modelPresets_NoDefault ==
  ("Regular Hand" :>
     (  ("Default"   :> [position |-> Vec(-1000, -2000, -700),
                         scale    |-> Vec(100, 100, 100),
                         rotation |-> Vec(-102, -106, 7)])
     @@ ("Palm View" :> [position |-> Vec(100, 3900, -600),
                         scale    |-> Vec(120, 120, 120),
                         rotation |-> Vec(441, 172, 7)])
     @@ ("Side View" :> [position |-> Vec(-3100, 2300, 1200),
                         scale    |-> Vec(120, 120, 120),
                         rotation |-> Vec(495, -581, -634)]) ))
  @@
  ("Skeleton Hand" :>
     (  ("Front View" :> [position |-> Vec(1000, 3000, 800),
                          scale    |-> Vec(110, 110, 110),
                          rotation |-> Vec(-70, -620, -320)])
     @@ ("Palm View"  :> [position |-> Vec(-1100, -900, 1100),
                          scale    |-> Vec(110, 110, 110),
                          rotation |-> Vec(380, 310, 310)])
     @@ ("Wrist View" :> [position |-> Vec(1200, 400, 400),
                          scale    |-> Vec(110, 110, 110),
                          rotation |-> Vec(310, 180, -160)]) ))

modelPresets ==
  ("Regular Hand" :>
     (  ("Default"   :> [position |-> Vec(-1000, -2000, -700),
                         scale    |-> Vec(100, 100, 100),
                         rotation |-> Vec(-102, -106, 7)])
     @@ ("Palm View" :> [position |-> Vec(100, 3900, -600),
                         scale    |-> Vec(120, 120, 120),
                         rotation |-> Vec(441, 172, 7)])
     @@ ("Side View" :> [position |-> Vec(-3100, 2300, 1200),
                         scale    |-> Vec(120, 120, 120),
                         rotation |-> Vec(495, -581, -634)]) ))
  @@
  ("Skeleton Hand" :>
     (  ("Default"    :> [position |-> Vec(1000, 3000, 800),
                          scale    |-> Vec(110, 110, 110),
                          rotation |-> Vec(-70, -620, -320)])
     @@ ("Palm View"  :> [position |-> Vec(-1100, -900, 1100),
                          scale    |-> Vec(110, 110, 110),
                          rotation |-> Vec(380, 310, 310)])
     @@ ("Wrist View" :> [position |-> Vec(1200, 400, 400),
                          scale    |-> Vec(110, 110, 110),
                          rotation |-> Vec(310, 180, -160)]) ))

\* The ranges and steps of the numeric controllers of the panel.
PositionMin == -100000
PositionMax == 100000
PositionStep == 100
RotationMin == -1000
RotationMax == 1000
RotationStep == 10
ScaleMin == 10
ScaleMax == 500
ScaleStep == 10

InRange(v, lo, hi, step) == lo <= v /\ v <= hi /\ (v - lo) % step = 0

\* The values a user drags a field to in this model, each on a step of its
\* controller's range.
PositionVals == {v \in {300} : InRange(v, PositionMin, PositionMax, PositionStep)}
RotationVals == {v \in {150} : InRange(v, RotationMin, RotationMax, RotationStep)}
ScaleVals == {v \in {250, ScaleMax} : InRange(v, ScaleMin, ScaleMax, ScaleStep)}
Axes == {"x", "y", "z"}

\* Object.keys(modelFiles).find(key => modelFiles[key] === modelPath):
\* the first key in key order, or "undefined".
RECURSIVE FindFrom(_, _)
FindFrom(i, modelPath) ==
  IF i > Len(ModelKeys) THEN "undefined"
  ELSE IF modelFiles[ModelKeys[i]] = modelPath THEN ModelKeys[i]
  ELSE FindFrom(i + 1, modelPath)

FindModelName(modelPath) == FindFrom(1, modelPath)

\* gltf.scene as the loader hands it over for the load request: an
\* untransformed root node.
NewAsset(request) ==
  [request |-> request, position |-> Vec(0, 0, 0), rotation |-> Vec(0, 0, 0),
   scale |-> Vec(100, 100, 100)]

Pending == DOMAIN loads

\* f without its entry for s.
Without(f, s) == [k \in DOMAIN f \ {s} |-> f[k]]

Event(op, n, s) == [op |-> op, n |-> n, s |-> s]

\* ------------------------------------------------------------- applyPreset
\* applyPreset without its scale.set call.
applyPreset_NoScale(objs, cur, modelName, presetName) ==
  IF \/ cur = NULL
     \/ modelName \notin DOMAIN modelPresets
     \/ presetName \notin DOMAIN modelPresets[modelName]
  THEN objs
  ELSE LET preset == modelPresets[modelName][presetName]
       IN [objs EXCEPT ![cur].position = Vec(preset.position.x, preset.position.y, preset.position.z),
                       ![cur].rotation = Vec(preset.rotation.x, preset.rotation.y, preset.rotation.z)]

\* applyPreset with rotation.set given the components in the order x, z, y.
applyPreset_RotationSwapped(objs, cur, modelName, presetName) ==
  IF \/ cur = NULL
     \/ modelName \notin DOMAIN modelPresets
     \/ presetName \notin DOMAIN modelPresets[modelName]
  THEN objs
  ELSE LET preset == modelPresets[modelName][presetName]
       IN [objs EXCEPT ![cur].position = Vec(preset.position.x, preset.position.y, preset.position.z),
                       ![cur].rotation = Vec(preset.rotation.x, preset.rotation.z, preset.rotation.y),
                       ![cur].scale = Vec(preset.scale.x, preset.scale.y, preset.scale.z)]

\* applyPreset with position.add in place of position.set.
applyPreset_Relative(objs, cur, modelName, presetName) ==
  IF \/ cur = NULL
     \/ modelName \notin DOMAIN modelPresets
     \/ presetName \notin DOMAIN modelPresets[modelName]
  THEN objs
  ELSE LET preset == modelPresets[modelName][presetName]
       IN [objs EXCEPT ![cur].position = Vec(@.x + preset.position.x, @.y + preset.position.y, @.z + preset.position.z),
                       ![cur].rotation = Vec(preset.rotation.x, preset.rotation.y, preset.rotation.z),
                       ![cur].scale = Vec(preset.scale.x, preset.scale.y, preset.scale.z)]

\* applyPreset that stops after position.set.
applyPreset_PositionOnly(objs, cur, modelName, presetName) ==
  IF \/ cur = NULL
     \/ modelName \notin DOMAIN modelPresets
     \/ presetName \notin DOMAIN modelPresets[modelName]
  THEN objs
  ELSE LET preset == modelPresets[modelName][presetName]
       IN [objs EXCEPT ![cur].position = Vec(preset.position.x, preset.position.y, preset.position.z)]

applyPreset(objs, cur, modelName, presetName) ==
  IF \/ cur = NULL
     \/ modelName \notin DOMAIN modelPresets
     \/ presetName \notin DOMAIN modelPresets[modelName]
  THEN objs
  ELSE LET preset == modelPresets[modelName][presetName]
       IN [objs EXCEPT ![cur].position = Vec(preset.position.x, preset.position.y, preset.position.z),
                       ![cur].rotation = Vec(preset.rotation.x, preset.rotation.y, preset.rotation.z),
                       ![cur].scale = Vec(preset.scale.x, preset.scale.y, preset.scale.z)]

\* --------------------------------------------------------------- createGUI
\* The heap of panels after createGUI(currentModelName) ran with cur as the
\* global currentModel: the old panel destroyed, a new one appended. A
\* destroyed panel has left the page and takes no more events; nothing reads
\* its fields again.
Destroyed ==
  [model |-> "", view |-> "", currentModelName |-> "", target |-> NULL,
   destroyed |-> TRUE]

\* createGUI without its gui.destroy() call.
createGUI_NoDestroy(gs, g, currentModelName, cur) ==
  Append(gs,
         [model |-> currentModelName,
          view |-> "Default",
          currentModelName |-> currentModelName,
          target |-> cur,
          destroyed |-> FALSE])

createGUI(gs, g, currentModelName, cur) ==
  LET destroyed == IF g # NULL THEN [gs EXCEPT ![g] = Destroyed] ELSE gs
  IN Append(destroyed,
            [model |-> currentModelName,
             view |-> "Default",
             currentModelName |-> currentModelName,
             target |-> cur,
             destroyed |-> FALSE])

\* --------------------------------------------------------------- loadModel
\* The synchronous part of loadModel: the current model leaves the scene and
\* the load is issued. Loads are numbered in issue order.
loadModel(modelPath) ==
  /\ scene' = IF currentModel # NULL THEN scene \ {currentModel} ELSE scene
  /\ issued' = issued + 1
  /\ loads' = loads @@
                (issued + 1 :>
                   [path |-> modelPath,
                    overlapped |-> Pending,
                    shown |-> IF currentModel \in scene THEN currentModel ELSE NULL])

\* The assets of objs that the program can still reach: the children of the
\* scene sc, the global currentModel cur and the targets of the panels gs
\* that take events. The others are garbage.
Reachable(objs, sc, cur, gs) ==
  LET keep == sc \cup {cur} \cup {gs[g].target : g \in {h \in DOMAIN gs : ~gs[h].destroyed}}
  IN [o \in DOMAIN objs \cap keep |-> objs[o]]

\* A success callback that drops the result of a load that is not the latest
\* one requested.
LoadSuccess_LatestOnly(s) ==
  /\ s \in Pending
  /\ IF s = issued
     THEN LET modelPath == loads[s].path
              asset == s
              modelName == FindModelName(modelPath)
              panels == createGUI(guis, gui, modelName, asset)
          IN /\ currentModel' = asset
             /\ scene' = scene \cup {asset}
             /\ guis' = panels
             /\ gui' = Len(guis) + 1
             /\ objects' = Reachable(applyPreset(objects @@ (asset :> NewAsset(loads[s])),
                                                 asset, modelName, "Default"),
                                     scene \cup {asset}, asset, panels)
     ELSE UNCHANGED <<currentModel, scene, guis, gui, objects>>
  /\ loads' = Without(loads, s)
  /\ last' = Event("loadSuccess", s, "")
  /\ UNCHANGED <<issued, errors, edits, rendered>>

\* The success callback of loader.load for the load s.
LoadSuccess(s) ==
  /\ s \in Pending
  /\ LET modelPath == loads[s].path
         asset == s
         modelName == FindModelName(modelPath)
         panels == createGUI(guis, gui, modelName, asset)
     IN /\ currentModel' = asset
        /\ scene' = scene \cup {asset}
        /\ guis' = panels
        /\ gui' = Len(guis) + 1
        /\ objects' = Reachable(applyPreset(objects @@ (asset :> NewAsset(loads[s])),
                                            asset, modelName, "Default"),
                                scene \cup {asset}, asset, panels)
  /\ loads' = Without(loads, s)
  /\ last' = Event("loadSuccess", s, "")
  /\ UNCHANGED <<issued, errors, edits, rendered>>

\* An error callback that also gives up the current model and its panel.
LoadError_Reset(s) ==
  /\ s \in Pending
  /\ errors' = errors + 1
  /\ loads' = Without(loads, s)
  /\ last' = Event("loadError", s, "")
  /\ currentModel' = NULL
  /\ gui' = NULL
  /\ guis' = IF gui # NULL THEN [guis EXCEPT ![gui] = Destroyed] ELSE guis
  /\ UNCHANGED <<scene, objects, issued, edits, rendered>>

\* The error callback of loader.load for the load s.
LoadError(s) ==
  /\ s \in Pending
  /\ errors' = errors + 1
  /\ loads' = Without(loads, s)
  /\ last' = Event("loadError", s, "")
  /\ UNCHANGED <<scene, currentModel, objects, guis, gui, issued, edits, rendered>>

\* ------------------------------------------------------ the panel's handlers
Live == {g \in DOMAIN guis : ~guis[g].destroyed}

\* The model selector's onChange. The select element reports a change only
\* when the chosen option differs from the one it shows.
SelectModel(g, modelName) ==
  /\ g \in Live
  /\ modelName # guis[g].model
  /\ issued < MaxLoads
  /\ guis' = [guis EXCEPT ![g].model = modelName]
  /\ loadModel(modelFiles[modelName])
  /\ last' = Event("selectModel", issued + 1, modelName)
  /\ UNCHANGED <<currentModel, objects, gui, errors, edits, rendered>>

\* The preset selector's onChange, on a change of the option shown.
SelectPreset(g, presetName) ==
  /\ g \in Live
  /\ presetName \in DOMAIN modelPresets[guis[g].currentModelName]
  /\ presetName # guis[g].view
  /\ guis' = [guis EXCEPT ![g].view = presetName]
  /\ objects' = applyPreset(objects, currentModel, guis[g].currentModelName, presetName)
  /\ last' = Event("selectPreset", g, presetName)
  /\ UNCHANGED <<scene, currentModel, gui, loads, issued, errors, edits, rendered>>

\* Position fields that are all bound to the property 'x'.
EditPosition_WrongAxis(g, axis, v) ==
  /\ g \in Live
  /\ edits < MaxEdits
  /\ edits' = edits + 1
  /\ objects' = [objects EXCEPT ![guis[g].target].position.x = v]
  /\ last' = Event("editPosition", v, axis)
  /\ UNCHANGED <<scene, currentModel, guis, gui, loads, issued, errors, rendered>>

\* A position field: the controller writes the bound vector's component.
EditPosition(g, axis, v) ==
  /\ g \in Live
  /\ edits < MaxEdits
  /\ edits' = edits + 1
  /\ objects' = [objects EXCEPT ![guis[g].target].position[axis] = v]
  /\ last' = Event("editPosition", v, axis)
  /\ UNCHANGED <<scene, currentModel, guis, gui, loads, issued, errors, rendered>>

\* A rotation field.
EditRotation(g, axis, v) ==
  /\ g \in Live
  /\ edits < MaxEdits
  /\ edits' = edits + 1
  /\ objects' = [objects EXCEPT ![guis[g].target].rotation[axis] = v]
  /\ last' = Event("editRotation", v, axis)
  /\ UNCHANGED <<scene, currentModel, guis, gui, loads, issued, errors, rendered>>

\* The scale field without its onChange handler.
ScaleChanged_NoHandler(objs, target, cur, v) ==
  [objs EXCEPT ![target].scale.x = v]

\* The scale field: the controller writes scale.x of the bound vector, then
\* its onChange sets all three components of the global currentModel's scale.
ScaleChanged(objs, target, cur, v) ==
  LET written == [objs EXCEPT ![target].scale.x = v]
  IN [written EXCEPT ![cur].scale = Vec(v, v, v)]

EditScale(g, v) ==
  /\ g \in Live
  /\ edits < MaxEdits
  /\ edits' = edits + 1
  /\ objects' = ScaleChanged(objects, guis[g].target, currentModel, v)
  /\ last' = Event("editScale", v, "")
  /\ UNCHANGED <<scene, currentModel, guis, gui, loads, issued, errors, rendered>>

\* ---------------------------------------------------------- the render tick
\* A render loop that a reported load error brings to a halt.
Animate_StopsOnError ==
  /\ errors = 0
  /\ rendered' = scene
  /\ UNCHANGED <<scene, currentModel, objects, guis, gui, loads, issued, errors, edits, last>>

\* animate: the frame is drawn from the scene as it is.
Animate ==
  /\ rendered' = scene
  /\ UNCHANGED <<scene, currentModel, objects, guis, gui, loads, issued, errors, edits, last>>

\* ------------------------------------------------------------ specification
\* An init() that calls createGUI right away instead of leaving it to the
\* success callback.
Init_GuiAtStart ==
  /\ scene = {}
  /\ currentModel = NULL
  /\ objects = <<>>
  /\ guis = createGUI(<<>>, NULL, "Regular Hand", NULL)
  /\ gui = 1
  /\ loads = (1 :> [path |-> modelFiles["Regular Hand"], overlapped |-> {},
                     shown |-> NULL])
  /\ issued = 1
  /\ errors = 0
  /\ edits = 0
  /\ rendered = {}
  /\ last = Event("init", 1, "Regular Hand")

\* The state init() leaves: an empty scene, the load of 'Regular Hand' issued
\* and one frame rendered.
Init ==
  /\ scene = {}
  /\ currentModel = NULL
  /\ objects = <<>>
  /\ guis = <<>>
  /\ gui = NULL
  /\ loads = (1 :> [path |-> modelFiles["Regular Hand"], overlapped |-> {},
                     shown |-> NULL])
  /\ issued = 1
  /\ errors = 0
  /\ edits = 0
  /\ rendered = {}
  /\ last = Event("init", 1, "Regular Hand")

Next ==
  \/ \E s \in DOMAIN loads : LoadSuccess(s)
  \/ \E s \in DOMAIN loads : LoadError(s)
  \/ \E g \in Live : \E m \in DOMAIN modelFiles : SelectModel(g, m)
  \/ \E g \in Live : \E p \in DOMAIN modelPresets[guis[g].currentModelName] : SelectPreset(g, p)
  \/ \E g \in Live : \E a \in Axes : \E v \in PositionVals : EditPosition(g, a, v)
  \/ \E g \in Live : \E a \in Axes : \E v \in RotationVals : EditRotation(g, a, v)
  \/ \E g \in Live : \E v \in ScaleVals : EditScale(g, v)
  \/ Animate

Spec == Init /\ [][Next]_vars

\* animate asks for its next frame before it does anything else, so a frame
\* that is due is drawn.
FairSpec == Spec /\ WF_vars(Animate)

\* ================================================================== claims
Transform(o) ==
  [position |-> objects[o].position, rotation |-> objects[o].rotation,
   scale |-> objects[o].scale]

\* The catalog name a load request was made for.
RequestedName(o) == CHOOSE m \in DOMAIN modelFiles : modelFiles[m] = objects[o].request.path

PresetOf(m, p) ==
  [position |-> modelPresets[m][p].position, rotation |-> modelPresets[m][p].rotation,
   scale |-> modelPresets[m][p].scale]

\* C1: when selectModel(A) is followed by selectModel(B) before A's load
\* completes and both loads succeed, the displayed model is B and A's asset
\* is not in the scene, whichever load completes first.
C1_SupersededLoad ==
  \A a \in DOMAIN objects : \A b \in DOMAIN objects :
    (a \in objects[b].request.overlapped /\ b = issued)
      => (currentModel = b /\ a \notin scene)

\* C2: the scene never holds more than one loaded model, and right after a
\* load succeeds it holds exactly the asset of that load.
C2_AtMostOneModel ==
  /\ Cardinality(scene) <= 1
  /\ last.op = "loadSuccess" => scene = {last.n}

\* C3: a load requested while a model Y is displayed and then failing leaves
\* Y displayed (in the scene, as currentModel) with its transform unchanged,
\* and never leaves the scene without a model.
C3_FailureIsolation ==
  [][\A s \in DOMAIN loads :
       (s \notin DOMAIN loads' /\ errors' = errors + 1
          /\ loads[s].shown # NULL /\ currentModel = loads[s].shown)
       => /\ currentModel' = loads[s].shown
          /\ loads[s].shown \in scene'
          /\ objects'[loads[s].shown] = objects[loads[s].shown]]_vars

\* C4: while a load requested in Displaying(old) is in flight the old model
\* stays in the scene, and once the new asset is inserted the old one is gone.
C4_ReleaseOrdering ==
  /\ \A s \in DOMAIN loads :
       (loads[s].shown # NULL /\ currentModel = loads[s].shown)
         => loads[s].shown \in scene
  /\ last.op = "loadSuccess" => scene \subseteq {last.n}

\* C5: right after the load of m succeeds the new current model carries
\* exactly the transform PresetCatalog[m]["Default"], whatever was selected or
\* edited in the old panel while the load was in flight.
C5_DefaultAfterLoad ==
  last.op = "loadSuccess" =>
    /\ currentModel = last.n
    /\ Transform(currentModel) = PresetOf(RequestedName(currentModel), "Default")

\* The load of the current model just succeeded; it was requested while the
\* load of another asset, still in the scene, was in flight, and that asset
\* was edited in its panel after the request.
C5_Witness ==
  /\ last.op = "loadSuccess"
  /\ currentModel = last.n
  /\ \E o \in scene \ {currentModel} :
       /\ o \in objects[currentModel].request.overlapped
       /\ Transform(o) # PresetOf(RequestedName(o), "Default")

\* C6: the preset selector's change to p sets all nine components of the
\* current model's transform to PresetCatalog[name][p], name the model's
\* catalog name, and changes neither the current model nor the scene.
C6_PresetSelection ==
  [][\A g \in Live : \A p \in DOMAIN modelPresets[guis[g].currentModelName] :
       (guis[g].view # p /\ guis'[g].view = p /\ g \in DOMAIN guis')
       => /\ currentModel' = currentModel
          /\ scene' = scene
          /\ gui' = gui
          /\ Transform(currentModel)' = PresetOf(RequestedName(currentModel), p)]_vars

\* A preset other than Default was just selected for a model whose field was
\* edited before.
C6_Witness ==
  /\ last.op = "selectPreset"
  /\ last.s # "Default"
  /\ edits > 0
  /\ currentModel \in scene
  /\ guis[gui].target = currentModel
  /\ Transform(currentModel) = PresetOf(RequestedName(currentModel), last.s)

\* C7: applying a preset to the current model a second time changes nothing
\* that the first application set.
C7_Idempotent ==
  \A m \in DOMAIN modelPresets : \A p \in DOMAIN modelPresets[m] :
    LET once == applyPreset(objects, currentModel, m, p)
    IN applyPreset(once, currentModel, m, p) = once

\* The preset selector just applied Palm View to a displayed model that had
\* been edited, and applying Palm View to it again changes nothing.
C7_Witness ==
  /\ last.op = "selectPreset"
  /\ last.s = "Palm View"
  /\ edits > 0
  /\ currentModel \in scene
  /\ applyPreset(objects, currentModel, guis[last.n].currentModelName, last.s) = objects
  /\ \E p \in DOMAIN modelPresets[guis[last.n].currentModelName] :
       applyPreset(objects, currentModel, guis[last.n].currentModelName, p) # objects

\* C8: the scale field's change to v sets the three scale components of the
\* current model to v and leaves its position and rotation alone.
C8_UniformScale ==
  [][\A v \in ScaleVals :
       (last' = Event("editScale", v, "") /\ edits' = edits + 1)
       => /\ currentModel' = currentModel
          /\ objects'[currentModel].scale = Vec(v, v, v)
          /\ objects'[currentModel].position = objects[currentModel].position
          /\ objects'[currentModel].rotation = objects[currentModel].rotation]_vars

\* The scale field was just set to the top of its range on a displayed model.
C8_Witness ==
  /\ last.op = "editScale"
  /\ last.n = ScaleMax
  /\ currentModel \in scene
  /\ objects[currentModel].scale = Vec(ScaleMax, ScaleMax, ScaleMax)

\* C9: once a load has succeeded exactly one panel takes events, and it is
\* the last one built and the one the global gui names.
C9_OnePanel ==
  currentModel # NULL => (Live = {gui} /\ gui = Len(guis))

\* Three panels were built, two of them by loads that overlapped.
C9_Witness ==
  /\ Len(guis) >= 3
  /\ Cardinality(scene) >= 2
  /\ Live = {gui}

\* C10: the error callback changes neither currentModel, nor any transform,
\* nor the scene, nor the panel; it reports the error.
C10_ErrorFrame ==
  [][\A s \in DOMAIN loads :
       (s \notin DOMAIN loads' /\ last' = Event("loadError", s, ""))
       => /\ currentModel' = currentModel
          /\ objects' = objects
          /\ scene' = scene
          /\ gui' = gui
          /\ guis' = guis
          /\ errors' = errors + 1]_vars

\* A load just failed while a model and its panel exist.
C10_Witness ==
  /\ last.op = "loadError"
  /\ errors > 0
  /\ currentModel # NULL
  /\ gui # NULL
  /\ ~guis[gui].destroyed

\* C11: while no model has been loaded, applyPreset changes nothing for any
\* model and preset name, and no panel exists to take a preset or field event.
C11_EmptyNoOps ==
  currentModel = NULL =>
    /\ Live = {}
    /\ gui = NULL
    /\ \A m \in DOMAIN modelPresets : \A p \in DOMAIN modelPresets[m] :
         applyPreset(objects, currentModel, m, p) = objects

\* The initial load has failed: the session is Empty with nothing in flight.
C11_Witness ==
  /\ currentModel = NULL
  /\ last.op = "loadError"
  /\ DOMAIN loads = {}
  /\ applyPreset(objects, currentModel, "Regular Hand", "Default") = objects

\* C12: once the scene holds a model it holds one in every later state.
C12_NeverEmptyAgain ==
  [][scene # {} => scene' # {}]_vars

\* A step in which the preset selector of a panel changed its option.
PresetStep ==
  \E g \in Live : ~guis'[g].destroyed /\ guis'[g].view # guis[g].view

\* C13: between two handlers, where a render tick reads, no asset carries a
\* partly applied preset: across a preset step the transform of every asset
\* is either wholly what it was or wholly a preset of its model.
C13_AtomicPreset ==
  [][PresetStep =>
       \A o \in DOMAIN objects :
         \/ Transform(o)' = Transform(o)
         \/ \E p \in DOMAIN modelPresets[RequestedName(o)] :
              Transform(o)' = PresetOf(RequestedName(o), p)]_vars

\* A frame was drawn of the current model carrying Side View, applied to it
\* after a field edit.
C13_Witness ==
  /\ last.op = "selectPreset"
  /\ last.s = "Side View"
  /\ edits > 0
  /\ rendered = scene
  /\ currentModel \in rendered
  /\ Transform(currentModel) = PresetOf("Regular Hand", "Side View")

\* C14: a preset selection or a field edit changes neither the current model,
\* nor the scene, nor the panels, nor which request an asset came from; a
\* position or rotation edit changes the edited component of the panel's
\* model and nothing else of any transform.
C14_IdentityFrame ==
  [][/\ (PresetStep \/ edits' = edits + 1) =>
          /\ currentModel' = currentModel
          /\ scene' = scene
          /\ gui' = gui
          /\ Live' = Live
          /\ DOMAIN objects' = DOMAIN objects
          /\ \A o \in DOMAIN objects : objects'[o].request = objects[o].request
          /\ \A g \in Live : /\ guis'[g].target = guis[g].target
                             /\ guis'[g].currentModelName = guis[g].currentModelName
     /\ \A a \in Axes : \A v \in PositionVals :
          (edits' = edits + 1 /\ last' = Event("editPosition", v, a)) =>
             /\ objects'[currentModel].position[a] = v
             /\ \A b \in Axes \ {a} :
                  objects'[currentModel].position[b] = objects[currentModel].position[b]
             /\ objects'[currentModel].rotation = objects[currentModel].rotation
             /\ objects'[currentModel].scale = objects[currentModel].scale
             /\ \A o \in DOMAIN objects \ {currentModel} : objects'[o] = objects[o]
     /\ \A a \in Axes : \A v \in RotationVals :
          (edits' = edits + 1 /\ last' = Event("editRotation", v, a)) =>
             /\ objects'[currentModel].rotation[a] = v
             /\ \A b \in Axes \ {a} :
                  objects'[currentModel].rotation[b] = objects[currentModel].rotation[b]
             /\ objects'[currentModel].position = objects[currentModel].position
             /\ objects'[currentModel].scale = objects[currentModel].scale
             /\ \A o \in DOMAIN objects \ {currentModel} : objects'[o] = objects[o]]_vars

\* The z rotation field of the Skeleton Hand panel was just edited while
\* another asset was in the scene.
C14_Witness ==
  /\ last.op = "editRotation"
  /\ last.s = "z"
  /\ currentModel \in scene
  /\ Cardinality(scene) >= 2
  /\ guis[gui].currentModelName = "Skeleton Hand"
  /\ objects[currentModel].rotation = Vec(-70, -620, last.n)

\* C15: the fields of every live panel are bound to the current model, which
\* is in the scene, and its preset selector was built for that model's name.
C15_PanelOfDisplayedModel ==
  \A g \in Live :
    /\ guis[g].target = currentModel
    /\ currentModel \in scene
    /\ guis[g].currentModelName = RequestedName(currentModel)

\* C16: the preset catalog and the asset catalog have the same model names,
\* every model has a 'Default' preset, and the name every success callback
\* looked up for its panel is a key of the preset catalog with a 'Default'.
C16_CatalogConsistency ==
  /\ DOMAIN modelPresets = DOMAIN modelFiles
  /\ DOMAIN modelFiles = {ModelKeys[i] : i \in DOMAIN ModelKeys}
  /\ \A m \in DOMAIN modelFiles : "Default" \in DOMAIN modelPresets[m]
  /\ \A g \in Live :
       /\ guis[g].currentModelName \in DOMAIN modelPresets
       /\ "Default" \in DOMAIN modelPresets[guis[g].currentModelName]
       /\ guis[g].view \in DOMAIN modelPresets[guis[g].currentModelName]

\* Assets of both models were loaded and given their Default, and the panel
\* of 'Skeleton Hand' is up.
C16_Witness ==
  /\ \E o \in scene : Transform(o) = PresetOf("Regular Hand", "Default")
  /\ Transform(currentModel) = PresetOf("Skeleton Hand", "Default")
  /\ guis[gui].currentModelName = "Skeleton Hand"
  /\ guis[gui].view = "Default"

\* C17: in every state the render tick can run, whatever loads are in flight
\* or have failed and whether or not a model is displayed, and it keeps
\* running: the frame drawn is again and again the scene as it is.
C17_RenderProceeds ==
  /\ [](ENABLED Animate)
  /\ []<>(rendered = scene)
  /\ [](last.op = "loadError" => <>(rendered = scene))

\* A load failed, after that another model was requested and loaded, and a
\* frame shows it.
C17_Witness ==
  /\ errors = 1
  /\ issued = 3
  /\ currentModel = issued
  /\ objects[currentModel].request.overlapped = {}
  /\ rendered = {currentModel}

\* C18: every load that completes successfully, the latest requested or not,
\* puts its asset in the scene, makes it the current model and builds the
\* one live panel for it; and the current model and the panel change in no
\* other step. So both always belong to the last load that succeeded.
C18_LastCompletionWins ==
  [][/\ \A s \in DOMAIN loads :
          (s \notin DOMAIN loads' /\ errors' = errors) =>
             /\ currentModel' = s
             /\ s \in scene'
             /\ objects'[s].request = loads[s]
             /\ gui' = Len(guis')
             /\ Live' = {gui'}
             /\ guis'[gui'].target = s
             /\ guis'[gui'].currentModelName = FindModelName(loads[s].path)
     /\ (currentModel' # currentModel \/ gui' # gui \/ Len(guis') # Len(guis)) =>
          \E s \in DOMAIN loads : s \notin DOMAIN loads' /\ errors' = errors]_vars

\* The load that succeeded last was requested before the load of another
\* asset in the scene, and it is the current model.
C18_Witness ==
  /\ last.op = "loadSuccess"
  /\ currentModel = last.n
  /\ currentModel < issued
  /\ \E o \in scene : /\ currentModel \in objects[o].request.overlapped
                      /\ o = issued
  /\ guis[gui].target = currentModel

\* C19: with a live panel and no load in flight, the model selector shows the
\* catalog name of the current model.
C19_SelectorAgrees ==
  (Live # {} /\ DOMAIN loads = {}) =>
    \A g \in Live : guis[g].model = RequestedName(currentModel)

\* C20: the lookup of the success callback gives every catalog name back from
\* its path, the paths of the catalog being distinct, and so every panel is
\* built under the name its model was requested by.
C20_NamePathRoundTrip ==
  /\ \A n \in DOMAIN modelFiles : FindModelName(modelFiles[n]) = n
  /\ \A m \in DOMAIN modelFiles : \A n \in DOMAIN modelFiles :
       modelFiles[m] = modelFiles[n] => m = n
  /\ \A g \in Live :
       /\ modelFiles[guis[g].currentModelName] = objects[guis[g].target].request.path
       /\ last = Event("loadSuccess", guis[g].target, "") =>
            Transform(guis[g].target) = PresetOf(guis[g].currentModelName, "Default")

\* 'Skeleton Hand', the second key of the catalog, was chosen in the selector;
\* its load just succeeded and its panel was built under that name.
C20_Witness ==
  /\ last.op = "loadSuccess"
  /\ objects[currentModel].request.path = "/skeleton_hand.glb"
  /\ FindModelName("/skeleton_hand.glb") = "Skeleton Hand"
  /\ guis[gui].currentModelName = "Skeleton Hand"
  /\ guis[gui].target = currentModel
====
